---- MODULE Spec2Model ----
(***************************************************************************)
(* Model of the request handlers of la-casa-maite-vite:                    *)
(*   src/api/stripe-config.js   the config handler (GET)                   *)
(*   src/api/send-booking.js    the booking handler; the file holds two    *)
(*                              variants: `handler` (lines 1-228) and the  *)
(*                              older `module.exports` (lines 229-442),    *)
(*                              called "legacy" below.                     *)
(* One request is followed from arrival to its response. JavaScript values *)
(* are records [t, s, n, h]; strings are sequences of one-character        *)
(* strings so that trim, toLowerCase and parseInt are computed.            *)
(***************************************************************************)
EXTENDS Integers, Sequences, FiniteSets, TLC

(* ------------------------------------------------------------------ *)
(* Bounds of the model                                                *)
(* ------------------------------------------------------------------ *)
MaxPads == 3
MaxRawLen == 3
PadLen == 400000
TextLen == 40
\* send-booking.js:63  data.length > 1e6
BodyCap == 1000000

(* ------------------------------------------------------------------ *)
(* JavaScript values                                                  *)
(* ------------------------------------------------------------------ *)
\* t: "undefined" | "null" | "string" | "number" | "NaN"; a number is n + h/10
Undef == [t |-> "undefined", s |-> <<>>, n |-> 0, h |-> 0]
NullVal == [t |-> "null", s |-> <<>>, n |-> 0, h |-> 0]
NaNVal == [t |-> "NaN", s |-> <<>>, n |-> 0, h |-> 0]
Str(cs) == [t |-> "string", s |-> cs, n |-> 0, h |-> 0]
Num(k) == [t |-> "number", s |-> <<>>, n |-> k, h |-> 0]
NumHalf(k) == [t |-> "number", s |-> <<>>, n |-> k, h |-> 5]

\* ToBoolean: the truthiness `!x`, `x && ...`, `x || ...` and `x ? :` test
Truthy(v) ==
    CASE v.t = "undefined" -> FALSE
      [] v.t = "null" -> FALSE
      [] v.t = "NaN" -> FALSE
      [] v.t = "string" -> Len(v.s) > 0
      [] v.t = "number" -> ~(v.n = 0 /\ v.h = 0)
      [] OTHER -> TRUE

IsWhitespace(c) == c \in {" ", "\t", "\n"}
IsDigit(c) == c \in {"0", "1", "2", "3", "4", "5", "6", "7", "8", "9"}
DigitChars == <<"0", "1", "2", "3", "4", "5", "6", "7", "8", "9">>
DigitValue(c) == (CHOOSE i \in 1..10 : DigitChars[i] = c) - 1

RECURSIVE DropLeadingWs(_)
DropLeadingWs(cs) ==
    IF cs # <<>> /\ IsWhitespace(Head(cs)) THEN DropLeadingWs(Tail(cs)) ELSE cs

RECURSIVE DropTrailingWs(_)
DropTrailingWs(cs) ==
    IF cs # <<>> /\ IsWhitespace(cs[Len(cs)])
    THEN DropTrailingWs(SubSeq(cs, 1, Len(cs) - 1))
    ELSE cs

\* String.prototype.trim
Trim(cs) == DropTrailingWs(DropLeadingWs(cs))

UpperChars == <<"A", "B", "C", "D", "E", "F", "G", "H", "I", "J", "K", "L", "M",
                "N", "O", "P", "Q", "R", "S", "T", "U", "V", "W", "X", "Y", "Z">>
LowerChars == <<"a", "b", "c", "d", "e", "f", "g", "h", "i", "j", "k", "l", "m",
                "n", "o", "p", "q", "r", "s", "t", "u", "v", "w", "x", "y", "z">>
LowerChar(c) ==
    IF \E i \in 1..26 : UpperChars[i] = c
    THEN LowerChars[CHOOSE i \in 1..26 : UpperChars[i] = c]
    ELSE c

\* String.prototype.toLowerCase
ToLowerCase(cs) == [i \in 1..Len(cs) |-> LowerChar(cs[i])]

RECURSIVE NatToChars(_)
NatToChars(k) ==
    IF k < 10 THEN <<DigitChars[k + 1]>>
    ELSE NatToChars(k \div 10) \o <<DigitChars[(k % 10) + 1]>>

\* String(v)
ToStringJS(v) ==
    CASE v.t = "string" -> v.s
      [] v.t = "undefined" -> <<"u", "n", "d", "e", "f", "i", "n", "e", "d">>
      [] v.t = "null" -> <<"n", "u", "l", "l">>
      [] v.t = "NaN" -> <<"N", "a", "N">>
      [] v.t = "number" ->
            (IF v.n < 0 THEN <<"-">> \o NatToChars(-v.n) ELSE NatToChars(v.n))
            \o (IF v.h = 0 THEN <<>> ELSE <<".", DigitChars[v.h + 1]>>)
      [] OTHER -> <<"[", "o", "b", "j", "e", "c", "t", "]">>

RECURSIVE DigitPrefix(_)
DigitPrefix(cs) ==
    IF cs # <<>> /\ IsDigit(Head(cs)) THEN <<Head(cs)>> \o DigitPrefix(Tail(cs)) ELSE <<>>

RECURSIVE DigitsValue(_)
DigitsValue(ds) ==
    IF ds = <<>> THEN 0
    ELSE 10 * DigitsValue(SubSeq(ds, 1, Len(ds) - 1)) + DigitValue(ds[Len(ds)])

\* Number.parseInt(v, 10): ToString, skip leading whitespace, an optional sign,
\* then the longest prefix of decimal digits; NaN when there is none
ParseInt(v) ==
    LET str == DropLeadingWs(ToStringJS(v))
        neg == str # <<>> /\ Head(str) = "-"
        body == IF str # <<>> /\ Head(str) \in {"-", "+"} THEN Tail(str) ELSE str
        ds == DigitPrefix(body)
    IN  IF ds = <<>> THEN NaNVal
        ELSE Num(IF neg THEN -DigitsValue(ds) ELSE DigitsValue(ds))

\* Number.isFinite
IsFinite(v) == v.t = "number"

(* ------------------------------------------------------------------ *)
(* State                                                              *)
(* ------------------------------------------------------------------ *)
VARIABLES
    env,        \* process.env: the settings both files read
    cfgMod,     \* module-level constants of stripe-config.js, once loaded
    bkMod,      \* module-level constants of send-booking.js (handler), once loaded
    variant,    \* which booking handler serves the request: "handler" | "legacy"
    cfgRes,     \* the config handler's response, once it has answered
    req,        \* the booking request: method, body mode, body
    pc,         \* position of the booking request
    stream,     \* raw body stream: accumulated data, settled promise, socket
    payload,    \* the parsed body, as the handler holds (and mutates) it
    res,        \* the booking handler's response: status, headers, body
    calls,      \* calls made to the processor and the mail transport
    local,      \* the handler's locals across an await: responseData, paymentDetails
    trail       \* lifecycle states the request has passed through

vars == <<env, cfgMod, bkMod, variant, cfgRes, req, pc, stream, payload, res, calls, local, trail>>

(* ------------------------------------------------------------------ *)
(* Strings used by the requests and the environment                   *)
(* ------------------------------------------------------------------ *)
S_sk == <<"s", "k">>
S_pk == <<"p", "k">>
S_1500 == <<"1", "5", "0", "0">>
S_minus5 == <<"-", "5">>
S_abc == <<"a", "b", "c">>
S_zero == <<"0">>
S_usd == <<"u", "s", "d">>
S_succeeded == <<"s", "u", "c", "c", "e", "e", "d", "e", "d">>
S_SUCCEEDED == <<"S", "U", "C", "C", "E", "E", "D", "E", "D">>
S_processing == <<"p", "r", "o", "c", "e", "s", "s", "i", "n", "g">>
S_unknown == <<"u", "n", "k", "n", "o", "w", "n">>
S_pending == <<"p", "a", "y", "m", "e", "n", "t", "-", "p", "e", "n", "d", "i", "n", "g">>
S_notcharged == <<"n", "o", "t", "-", "c", "h", "a", "r", "g", "e", "d">>
S_confirm == <<"c", "o", "n", "f", "i", "r", "m">>
S_submit == <<"s", "u", "b", "m", "i", "t">>
S_pi == <<"p", "i", "_", "1">>
S_pinew == <<"p", "i", "_", "2">>
S_secret == <<"c", "s">>
S_Ann == <<"A", "n", "n">>
S_mail == <<"a", "@", "b">>
S_phone == <<"5", "5", "5">>
S_in == <<"1", "/", "2">>
S_out == <<"3", "/", "2">>
S_two == <<"2">>
S_blank == <<" ", " ">>
S_hi == <<"h", "i">>
S_5000 == <<"5", "0", "0", "0">>
S_USDpad == <<" ", "U", "S", "D", " ">>
S_us == <<"u", "s">>

(* ------------------------------------------------------------------ *)
(* Module-level constants                                             *)
(* ------------------------------------------------------------------ *)
\* process.env.X || ''
OrEmpty(v) == IF Truthy(v) THEN v ELSE Str(<<>>)

\* stripe-config.js:5  Number.isFinite(depositAmount) && depositAmount > 0 ? depositAmount : 0
CfgNormalizedDeposit(e) ==
    LET depositAmount == ParseInt(e.STRIPE_DEPOSIT_AMOUNT)
    IN  IF IsFinite(depositAmount) /\ depositAmount.n > 0 THEN depositAmount.n ELSE 0

\* stripe-config.js:1-5
LoadStripeConfig(e) ==
    [loaded |-> TRUE,
     stripeSecretKey |-> OrEmpty(e.STRIPE_SECRET_KEY),
     publishableKey |-> OrEmpty(e.STRIPE_PUBLISHABLE_KEY),
     currency |-> ToLowerCase(OrEmpty(IF Truthy(e.STRIPE_CURRENCY) THEN e.STRIPE_CURRENCY ELSE Str(S_usd)).s),
     normalizedDeposit |-> CfgNormalizedDeposit(e)]

\* a faulty resolution that forgets the `depositAmount > 0` test
BkNormalizedDepositUnclamped(e) ==
    LET depositAmount == ParseInt(e.STRIPE_DEPOSIT_AMOUNT)
    IN  IF IsFinite(depositAmount) THEN depositAmount.n ELSE 0

\* send-booking.js:9
BkNormalizedDeposit(e) ==
    LET depositAmount == ParseInt(e.STRIPE_DEPOSIT_AMOUNT)
    IN  IF IsFinite(depositAmount) /\ depositAmount.n > 0 THEN depositAmount.n ELSE 0

\* send-booking.js:10  Boolean(stripe && normalizedDeposit > 0)
BkPaymentRequired(stripe, normalizedDeposit) == stripe /\ normalizedDeposit > 0

\* send-booking.js:30-36 (the SMTP settings are taken together: SMTP_OK stands for
\* SMTP_HOST, SMTP_USER, SMTP_PASS and BOOKING_NOTIFICATION_TO all being set)
CanSendMail(e) == e.SMTP_OK

\* send-booking.js:4-38
LoadSendBooking(e) ==
    LET stripe == Truthy(OrEmpty(e.STRIPE_SECRET_KEY))
        deposit == BkNormalizedDeposit(e)
    IN  [loaded |-> TRUE,
         stripe |-> stripe,
         currency |-> ToLowerCase(OrEmpty(IF Truthy(e.STRIPE_CURRENCY) THEN e.STRIPE_CURRENCY ELSE Str(S_usd)).s),
         normalizedDeposit |-> deposit,
         paymentRequired |-> BkPaymentRequired(stripe, deposit),
         transporter |-> CanSendMail(e)]

NotLoadedCfg ==
    [loaded |-> FALSE, stripeSecretKey |-> Str(<<>>), publishableKey |-> Str(<<>>),
     currency |-> <<>>, normalizedDeposit |-> 0]
NotLoadedBk ==
    [loaded |-> FALSE, stripe |-> FALSE, currency |-> <<>>, normalizedDeposit |-> 0,
     paymentRequired |-> FALSE, transporter |-> FALSE]

(* ------------------------------------------------------------------ *)
(* Requests                                                           *)
(* ------------------------------------------------------------------ *)
RequiredFields == <<"name", "email", "phone", "checkIn", "checkOut", "guests">>

NoFields ==
    [name |-> Undef, email |-> Undef, phone |-> Undef, checkIn |-> Undef,
     checkOut |-> Undef, guests |-> Undef, message |-> Undef, action |-> Undef,
     paymentIntentId |-> Undef, paymentStatus |-> Undef, amount |-> Undef,
     currency |-> Undef]

Full ==
    [NoFields EXCEPT !.name = Str(S_Ann), !.email = Str(S_mail), !.phone = Str(S_phone),
                     !.checkIn = Str(S_in), !.checkOut = Str(S_out),
                     !.guests = Str(S_two), !.message = Str(S_hi)]

\* bodies aimed at the submit flow: required fields absent, empty, blank, numeric
SubmitBodies ==
    {[Full EXCEPT !.name = a, !.email = b, !.guests = g, !.message = m] :
        a \in {Undef, Str(<<>>), Str(S_blank), Str(S_Ann)},
        b \in {Undef, Str(S_mail)},
        g \in {Undef, Str(S_two), Str(S_blank), Num(0), Num(2)},
        m \in {Undef, Str(S_hi)}}
    \cup {[Full EXCEPT !.action = Str(S_submit)], NoFields}

\* bodies aimed at the confirm flow
ConfirmBodies ==
    {[Full EXCEPT !.action = Str(S_confirm), !.paymentIntentId = i, !.paymentStatus = st,
                  !.name = a] :
        i \in {Undef, Str(S_pi)},
        st \in {Undef, Str(S_succeeded), Str(S_SUCCEEDED), Str(S_processing), Num(1)},
        a \in {Undef, Str(S_Ann)}}

\* bodies carrying the legacy variant's amount and currency
AmountBodies ==
    {[Full EXCEPT !.amount = a, !.currency = c] :
        a \in {Undef, Num(5000), Str(S_5000), NumHalf(10), Num(0), Str(S_abc), Str(S_blank)},
        c \in {Undef, Str(S_usd), Str(S_USDpad), Str(S_us)}}

ObjectBodies == SubmitBodies \cup ConfirmBodies \cup AmountBodies

\* a parsed JSON value: an object with fields, null, or a scalar (5, "x", true)
Obj(f) == [kind |-> "object", f |-> f]
NullValue == [kind |-> "null", f |-> NoFields]
ScalarValue == [kind |-> "scalar", f |-> NoFields]
EmptyObject == Obj(NoFields)

\* a body text on the wire: its length and what JSON.parse makes of it
Texts ==
    {[len |-> 0, json |-> FALSE, value |-> EmptyObject],          \* ""
     [len |-> TextLen, json |-> FALSE, value |-> EmptyObject]}    \* malformed, "{bad"
    \cup {[len |-> TextLen, json |-> TRUE, value |-> v] :
            v \in {Obj(Full), Obj([Full EXCEPT !.email = Undef, !.guests = Undef]),
                   Obj([Full EXCEPT !.action = Str(S_confirm), !.paymentIntentId = Str(S_pi)]),
                   NullValue, ScalarValue}}

Methods == {"GET", "POST", "OPTIONS"}

\* req.body as the framework hands it over: an already parsed object, a string
\* (legacy variant only reads it), or nothing, the body being on the stream
Requests ==
    {[method |-> m, mode |-> "object", parsed |-> v, text |-> CHOOSE t \in Texts : t.len = 0] :
        m \in Methods, v \in {Obj(f) : f \in ObjectBodies}}
    \cup {[method |-> m, mode |-> "stream", parsed |-> EmptyObject, text |-> t] :
        m \in Methods, t \in Texts}
    \cup {[method |-> m, mode |-> "string", parsed |-> EmptyObject, text |-> t] :
        m \in Methods, t \in {t \in Texts : t.len > 0}}

NoRequest ==
    [method |-> "none", mode |-> "none", parsed |-> EmptyObject,
     text |-> CHOOSE t \in Texts : t.len = 0]

(* ------------------------------------------------------------------ *)
(* Responses                                                          *)
(* ------------------------------------------------------------------ *)
NoPayment ==
    [shape |-> "absent", id |-> Undef, status |-> Undef, clientSecret |-> Undef,
     amount |-> 0, currency |-> <<>>, enabled |-> FALSE]
NullPayment == [NoPayment EXCEPT !.shape = "null"]

\* keys: the keys present in a JSON body; a key not in it has its default here
NoBody ==
    [kind |-> "none", keys |-> {}, error |-> "", missing |-> <<>>, success |-> FALSE,
     status |-> "", message |-> "", paymentRequired |-> FALSE,
     payment |-> NoPayment, mailError |-> ""]

NoResponse == [count |-> 0, status |-> 0, allow |-> "", cors |-> FALSE, body |-> NoBody]

ErrorBody(msg) == [NoBody EXCEPT !.kind = "json", !.keys = {"error"}, !.error = msg]

\* res.status(code).json(body) / .send(text) / .end(): one more response is sent
Send(r, code, body) == [r EXCEPT !.count = r.count + 1, !.status = code, !.body = body]

NoCalls ==
    [create |-> 0, retrieve |-> 0, notify |-> 0, sendMail |-> 0, subject |-> "",
     amount |-> 0, currency |-> <<>>, error |-> "", retrieved |-> "none",
     mailFailed |-> FALSE]

NoLocal == [payment |-> NoPayment, mailError |-> ""]

NoStream ==
    [listening |-> FALSE, len |-> 0, pads |-> 0, hasText |-> FALSE, ended |-> FALSE,
     promise |-> "none", value |-> EmptyObject, error |-> "", socketDestroyed |-> FALSE]

(* ------------------------------------------------------------------ *)
(* Config handler (stripe-config.js)                                  *)
(* ------------------------------------------------------------------ *)
NoCfgResponse ==
    [count |-> 0, status |-> 0, allow |-> "", error |-> "", publishableKey |-> NullVal,
     paymentRequired |-> FALSE, currency |-> <<>>, depositAmount |-> 0]

\* stripe-config.js:16  Boolean(publishableKey && stripeSecretKey && normalizedDeposit > 0)
CfgPaymentRequired(c) ==
    Truthy(c.publishableKey) /\ Truthy(c.stripeSecretKey) /\ c.normalizedDeposit > 0

\* stripe-config.js:7-20
ConfigHandler(m) ==
    IF m # "GET"
    THEN [NoCfgResponse EXCEPT !.count = 1, !.status = 405, !.allow = "GET",
                               !.error = "Method not allowed"]
    ELSE [NoCfgResponse EXCEPT
            !.count = 1, !.status = 200,
            !.publishableKey = IF Truthy(cfgMod.publishableKey) THEN cfgMod.publishableKey
                               ELSE NullVal,
            !.paymentRequired = CfgPaymentRequired(cfgMod),
            !.currency = cfgMod.currency,
            !.depositAmount = cfgMod.normalizedDeposit]

ConfigRequest ==
    /\ cfgMod.loaded
    /\ cfgRes.count = 0
    /\ \E m \in Methods : cfgRes' = ConfigHandler(m)
    /\ UNCHANGED <<env, cfgMod, bkMod, variant, req, pc, stream, payload, res, calls,
                   local, trail>>

(* ------------------------------------------------------------------ *)
(* The request as the handler's continuation sees and leaves it       *)
(* ------------------------------------------------------------------ *)
Cur == [pc |-> pc, payload |-> payload, res |-> res, calls |-> calls, local |-> local,
        trail |-> trail]

Step(o) ==
    /\ pc' = o.pc
    /\ payload' = o.payload
    /\ res' = o.res
    /\ calls' = o.calls
    /\ local' = o.local
    /\ trail' = o.trail

Respond(c, code, body) ==
    [c EXCEPT !.res = Send(c.res, code, body), !.pc = "Responded",
              !.trail = Append(c.trail, "Responded")]

\* an exception nothing catches: the handler's promise rejects, nothing is sent
Throw(c) == [c EXCEPT !.pc = "Threw"]

(* ------------------------------------------------------------------ *)
(* Booking handler, variant `handler` (send-booking.js:1-228)         *)
(* ------------------------------------------------------------------ *)
SubjectBase == "New booking enquiry"
SubjectDeposit == "New booking enquiry (deposit received)"

\* send-booking.js:86-94  the fields validateBooking reports, in requiredFields order
ValidateBooking(f) ==
    LET missing(field) == ~Truthy(f[field]) \/ Trim(ToStringJS(f[field])) = <<>>
    IN  SelectSeq(RequiredFields, missing)

\* send-booking.js:115-117
Subject(data) ==
    IF Truthy(data.paymentStatus) /\ ToLowerCase(data.paymentStatus.s) = S_succeeded
    THEN SubjectDeposit
    ELSE SubjectBase

\* send-booking.js:179  res.status(200).json(responseData)
ConfirmRespond(c) ==
    Respond(c, 200,
        [NoBody EXCEPT
            !.kind = "json",
            !.keys = {"success"}
                     \cup (IF c.local.payment.shape = "absent" THEN {} ELSE {"payment"})
                     \cup (IF c.local.mailError = "" THEN {} ELSE {"mailError"}),
            !.success = TRUE,
            !.payment = c.local.payment,
            !.mailError = c.local.mailError])

\* send-booking.js:176-178
MailFailed(c) == [c EXCEPT !.local.mailError = "Failed to send notification email"]

\* send-booking.js:110-135, as called at 174-179: up to the await of sendMail
SendNotificationEmail(c) ==
    LET c1 == [c EXCEPT !.calls.notify = @ + 1]
        data == c.payload.f
    IN  IF ~bkMod.transporter THEN ConfirmRespond(c1)
        ELSE IF Truthy(data.paymentStatus) /\ data.paymentStatus.t # "string"
        THEN \* paymentStatus.toLowerCase is not a function: caught at 176
             ConfirmRespond(MailFailed(c1))
        ELSE [c1 EXCEPT !.calls.sendMail = @ + 1, !.calls.subject = Subject(data),
                        !.pc = "AwaitMail"]

\* a faulty confirm flow that skips the default of lines 171-173
NotifyWithoutDefault(c) == SendNotificationEmail(c)

\* send-booking.js:171-175
DefaultStatusAndNotify(c) ==
    LET c1 == IF ~Truthy(c.payload.f.paymentStatus)
              THEN [c EXCEPT !.payload.f.paymentStatus =
                        IF bkMod.paymentRequired THEN Str(S_pending) ELSE Str(S_notcharged)]
              ELSE c
    IN  SendNotificationEmail(c1)

\* send-booking.js:157-161  up to the await of paymentIntents.retrieve
HandleConfirmAction(c) ==
    IF Truthy(c.payload.f.paymentIntentId) /\ bkMod.stripe
    THEN [c EXCEPT !.calls.retrieve = @ + 1, !.pc = "AwaitRetrieve"]
    ELSE DefaultStatusAndNotify(c)

\* send-booking.js:137-141  createPaymentIntent up to the await of paymentIntents.create
\* and, when it returns null, send-booking.js:218-227
CreatePaymentIntent(c) ==
    IF ~bkMod.paymentRequired
    THEN Respond(c, 200,
            [NoBody EXCEPT !.kind = "json",
                           !.keys = {"success", "paymentRequired", "payment"},
                           !.success = TRUE,
                           !.paymentRequired = bkMod.paymentRequired,
                           !.payment = NullPayment])
    ELSE [c EXCEPT !.calls.create = @ + 1, !.calls.amount = bkMod.normalizedDeposit,
                   !.calls.currency = bkMod.currency, !.pc = "AwaitCreate"]

\* send-booking.js:202-211
SubmitFlow(c) ==
    LET missing == ValidateBooking(c.payload.f)
    IN  IF missing # <<>>
        THEN Respond(c, 400,
                [ErrorBody("Missing required fields: ") EXCEPT !.missing = missing])
        ELSE CreatePaymentIntent(c)

\* send-booking.js:197-203
HandlerBranch(c) ==
    IF c.payload.kind = "null" THEN Throw(c)   \* payload.action of null
    ELSE IF c.payload.f.action = Str(S_confirm)
    THEN HandleConfirmAction([c EXCEPT !.trail = Append(@, "ConfirmFlow")])
    ELSE SubmitFlow([c EXCEPT !.trail = Append(@, "SubmitFlow")])

\* send-booking.js:55-60  parseBody up to the promise it returns
ParseBody(r) ==
    IF r.mode = "object"
    THEN [NoStream EXCEPT !.promise = "resolved", !.value = r.parsed]
    ELSE [NoStream EXCEPT !.promise = "pending", !.listening = TRUE]

\* send-booking.js:182-191  the handler is invoked and runs to `await parseBody(req)`
HandlerInvoke ==
    /\ variant = "handler"
    /\ bkMod.loaded
    /\ pc = "Start"
    /\ \E r \in {q \in Requests : q.mode # "string"} :
        /\ req' = r
        /\ IF r.method # "POST"
           THEN /\ Step(Respond([Cur EXCEPT !.res.allow = "POST",
                                            !.trail = Append(@, "MethodCheck")],
                                405, ErrorBody("Method not allowed")))
                /\ UNCHANGED stream
           ELSE /\ Step([Cur EXCEPT !.pc = "AwaitBody", !.trail = Append(@, "MethodCheck")])
                /\ stream' = ParseBody(r)
    /\ UNCHANGED <<env, cfgMod, bkMod, variant, cfgRes>>

\* send-booking.js:61-70  req.on('data')
OnDataResult(st, chunkLen, isText) ==
    LET len == st.len + chunkLen
        over == len > BodyCap
    IN  [st EXCEPT !.len = len,
                   !.pads = IF isText THEN @ ELSE @ + 1,
                   !.hasText = @ \/ isText,
                   !.socketDestroyed = @ \/ over,
                   !.promise = IF over /\ @ = "pending" THEN "rejected" ELSE @,
                   !.error = IF over /\ st.promise = "pending" THEN "Payload too large" ELSE @]

OnData ==
    /\ variant = "handler"
    /\ stream.listening /\ ~stream.ended
    /\ \/ /\ stream.pads < MaxPads
          /\ stream' = OnDataResult(stream, PadLen, FALSE)
       \/ /\ ~stream.hasText /\ req.text.len > 0
          /\ stream' = OnDataResult(stream, req.text.len, TRUE)
    /\ UNCHANGED <<env, cfgMod, bkMod, variant, cfgRes, req, pc, payload, res, calls,
                   local, trail>>

\* JSON.parse of the accumulated data: whitespace around one text
JsonParse(st, text) ==
    IF st.hasText /\ text.json THEN [ok |-> TRUE, value |-> text.value]
    ELSE [ok |-> FALSE, value |-> EmptyObject]

\* send-booking.js:71-81  req.on('end')
OnEndResult(st, text) ==
    LET parsed == JsonParse(st, text)
        settle == st.promise = "pending"
    IN  [st EXCEPT !.ended = TRUE,
                   !.promise = IF ~settle THEN @
                               ELSE IF st.len = 0 \/ parsed.ok THEN "resolved"
                               ELSE "rejected",
                   !.value = IF settle /\ st.len # 0 /\ parsed.ok THEN parsed.value ELSE @,
                   !.error = IF settle /\ st.len # 0 /\ ~parsed.ok
                             THEN "Unexpected token" ELSE @]

OnEnd ==
    /\ variant = "handler"
    /\ stream.listening /\ ~stream.ended
    /\ stream.hasText \/ req.text.len = 0 \/ stream.socketDestroyed
    /\ stream' = OnEndResult(stream, req.text)
    /\ UNCHANGED <<env, cfgMod, bkMod, variant, cfgRes, req, pc, payload, res, calls,
                   local, trail>>

\* send-booking.js:82  req.on('error', reject)
OnErrorResult(st) ==
    [st EXCEPT !.ended = TRUE,
               !.promise = IF @ = "pending" THEN "rejected" ELSE @,
               !.error = IF st.promise = "pending" THEN "aborted" ELSE @]

OnError ==
    /\ variant = "handler"
    /\ stream.listening /\ ~stream.ended
    /\ stream' = OnErrorResult(stream)
    /\ UNCHANGED <<env, cfgMod, bkMod, variant, cfgRes, req, pc, payload, res, calls,
                   local, trail>>

\* send-booking.js:189-211  the continuation of `await parseBody(req)`
HandlerBodyParsed ==
    /\ variant = "handler"
    /\ pc = "AwaitBody"
    /\ stream.promise \in {"resolved", "rejected"}
    /\ IF stream.promise = "rejected"
       THEN Step(Respond(Cur, 400, ErrorBody("Invalid JSON body")))
       ELSE Step(HandlerBranch([Cur EXCEPT !.payload = stream.value,
                                           !.trail = Append(@, "BodyParsed")]))
    /\ UNCHANGED <<env, cfgMod, bkMod, variant, cfgRes, req, stream>>

ProcessorErrors == {"Invalid API Key provided", "connect ETIMEDOUT"}
IntentStatuses == {S_succeeded, S_processing}

\* a faulty catch that echoes the processor's error text to the client
CreateFailedEcho(c, e) ==
    Respond([c EXCEPT !.calls.error = e], 500, ErrorBody(e))

\* send-booking.js:212-216  the processor rejected the creation with error text e
CreateFailed(c, e) ==
    Respond([c EXCEPT !.calls.error = e], 500, ErrorBody("Unable to initiate payment"))

\* send-booking.js:211-227  the continuation of `await createPaymentIntent(payload)`
CreateReturns ==
    /\ variant = "handler"
    /\ pc = "AwaitCreate"
    /\ \/ Step(Respond(Cur, 200,
                [NoBody EXCEPT !.kind = "json",
                               !.keys = {"success", "paymentRequired", "payment"},
                               !.success = TRUE,
                               !.paymentRequired = bkMod.paymentRequired,
                               !.payment = [NoPayment EXCEPT
                                    !.shape = "intent",
                                    !.clientSecret = Str(S_secret),
                                    !.id = Str(S_pinew),
                                    !.amount = calls.amount,
                                    !.currency = calls.currency]]))
       \/ \E e \in ProcessorErrors : Step(CreateFailed(Cur, e))
    /\ UNCHANGED <<env, cfgMod, bkMod, variant, cfgRes, req, stream>>

\* send-booking.js:161-175  the continuation of `await stripe.paymentIntents.retrieve`
RetrieveReturns ==
    /\ variant = "handler"
    /\ pc = "AwaitRetrieve"
    /\ \/ \E st \in IntentStatuses :
            Step(DefaultStatusAndNotify(
                [Cur EXCEPT !.calls.retrieved = "ok",
                            !.local.payment = [NoPayment EXCEPT
                                !.shape = "status",
                                !.id = payload.f.paymentIntentId,
                                !.status = Str(st)],
                            !.payload.f.paymentStatus = Str(st)]))
       \/ \E e \in ProcessorErrors :
            Step(DefaultStatusAndNotify(
                [Cur EXCEPT !.calls.retrieved = "failed",
                            !.calls.error = e,
                            !.local.payment = [NoPayment EXCEPT
                                !.shape = "status",
                                !.id = payload.f.paymentIntentId,
                                !.status = Str(S_unknown)]]))
    /\ UNCHANGED <<env, cfgMod, bkMod, variant, cfgRes, req, stream>>

\* send-booking.js:128-134, 174-179  the continuation of `await transporter.sendMail`
MailReturns ==
    /\ variant = "handler"
    /\ pc = "AwaitMail"
    /\ \/ Step(ConfirmRespond(Cur))
       \/ Step(ConfirmRespond(MailFailed([Cur EXCEPT !.calls.mailFailed = TRUE])))
    /\ UNCHANGED <<env, cfgMod, bkMod, variant, cfgRes, req, stream>>

(* ------------------------------------------------------------------ *)
(* Booking handler, legacy variant (send-booking.js:229-442)          *)
(* ------------------------------------------------------------------ *)
\* send-booking.js:412 (the dash of the source is written as a hyphen here)
LegacySubject == "New Booking Enquiry - La Casa Maite"

\* Number(string) for the strings the requests carry: whitespace trimmed, then
\* empty is 0, an optionally signed run of decimal digits is its value, and
\* anything else is NaN (no request here carries a fraction, exponent or hex form)
ToNumber(cs) ==
    LET str == Trim(cs)
        neg == str # <<>> /\ Head(str) = "-"
        body == IF str # <<>> /\ Head(str) \in {"-", "+"} THEN Tail(str) ELSE str
    IN  IF str = <<>> THEN Num(0)
        ELSE IF body # <<>> /\ DigitPrefix(body) = body
        THEN Num(IF neg THEN -DigitsValue(body) ELSE DigitsValue(body))
        ELSE NaNVal

\* Math.round of n + h/10
Round(v) == IF v.h >= 5 THEN v.n + 1 ELSE v.n

\* send-booking.js:346-349
AmountValue(amount) ==
    IF amount.t = "string" /\ Trim(amount.s) # <<>> THEN ToNumber(amount.s) ELSE amount

\* send-booking.js:351-361  TRUE when the amount is refused
InvalidAmount(amount) ==
    LET amountValue == AmountValue(amount)
    IN  \/ ~IsFinite(amountValue)
        \/ Round(amountValue) <= 0
        \/ amountValue.h # 0      \* Math.abs(normalizedAmount - amountValue) > 1e-6

\* send-booking.js:363-364
NormalizedCurrency(currency) ==
    IF currency.t = "string" THEN Str(ToLowerCase(Trim(currency.s))) ELSE NullVal

\* send-booking.js:366  TRUE when the currency is refused
InvalidCurrency(currency) ==
    LET c == NormalizedCurrency(currency)
    IN  \/ ~Truthy(c)
        \/ ~(Len(c.s) = 3 /\ \A i \in 1..Len(c.s) : \E j \in 1..26 : LowerChars[j] = c.s[i])

\* send-booking.js:255-266
GetStripe(e) == Truthy(e.STRIPE_SECRET_KEY)

\* send-booking.js:337
LegacyMissing(f) ==
    \/ ~Truthy(f.name) \/ ~Truthy(f.email) \/ ~Truthy(f.phone) \/ ~Truthy(f.checkIn)
    \/ ~Truthy(f.checkOut) \/ ~Truthy(f.guests) \/ ~Truthy(f.message)

\* send-booking.js:402
ResponsePayment(c) ==
    IF c.local.payment.shape = "absent"
    THEN [NoPayment EXCEPT !.shape = "legacy", !.enabled = FALSE]
    ELSE c.local.payment

\* send-booking.js:398-441  up to the await of sendMail
LegacyMail(c) ==
    IF env.EMAIL_CREDS
    THEN [c EXCEPT !.calls.sendMail = @ + 1, !.calls.subject = LegacySubject,
                   !.pc = "AwaitMail"]
    ELSE Respond(c, 200,
            [NoBody EXCEPT !.kind = "json", !.keys = {"status", "message", "payment"},
                           !.status = "received",
                           !.message = "No email credentials configured",
                           !.payment = ResponsePayment(c)])

\* send-booking.js:325-372  the fields are taken out, validated, and the intent asked for
LegacySubmit(c) ==
    LET f == c.payload.f
    IN  IF c.payload.kind = "null" THEN Throw(c)   \* destructuring of null
        ELSE LET c1 == [c EXCEPT !.trail = Append(@, "SubmitFlow")]
        IN  IF LegacyMissing(f) THEN Respond(c1, 400, ErrorBody("Missing required fields"))
            ELSE IF ~GetStripe(env) THEN LegacyMail(c1)
            ELSE IF InvalidAmount(f.amount)
            THEN Respond(c1, 400, ErrorBody("Invalid payment amount"))
            ELSE IF InvalidCurrency(f.currency)
            THEN Respond(c1, 400, ErrorBody("Invalid currency code"))
            ELSE [c1 EXCEPT !.calls.create = @ + 1,
                            !.calls.amount = Round(AmountValue(f.amount)),
                            !.calls.currency = NormalizedCurrency(f.currency).s,
                            !.pc = "AwaitCreate"]

\* send-booking.js:273-288  readJsonBody up to its first suspension
ReadJsonBody(r) ==
    IF r.mode = "object"
    THEN [NoStream EXCEPT !.promise = "resolved", !.value = r.parsed]
    ELSE IF r.mode = "string"
    THEN IF r.text.json
         THEN [NoStream EXCEPT !.promise = "resolved", !.value = r.text.value]
         ELSE [NoStream EXCEPT !.promise = "rejected", !.error = "Invalid JSON body"]
    ELSE [NoStream EXCEPT !.promise = "pending", !.listening = TRUE]

\* send-booking.js:301-320  the handler is invoked and runs to `await readJsonBody(req)`
LegacyInvoke ==
    /\ variant = "legacy"
    /\ pc = "Start"
    /\ \E r \in Requests :
        /\ req' = r
        /\ LET c == [Cur EXCEPT !.res.cors = TRUE, !.trail = Append(@, "MethodCheck")]
           IN  IF r.method = "OPTIONS"
               THEN /\ Step(Respond(c, 204, [NoBody EXCEPT !.kind = "end"]))
                    /\ UNCHANGED stream
               ELSE IF r.method # "POST"
               THEN /\ Step(Respond([c EXCEPT !.res.allow = "POST, OPTIONS"], 405,
                               [NoBody EXCEPT !.kind = "text",
                                              !.message = "Method Not Allowed"]))
                    /\ UNCHANGED stream
               ELSE /\ Step([c EXCEPT !.pc = "AwaitBody"])
                    /\ stream' = ReadJsonBody(r)
    /\ UNCHANGED <<env, cfgMod, bkMod, variant, cfgRes>>

\* send-booking.js:285-288  one turn of `for await (const chunk of req)`
LegacyChunkResult(st, chunkLen, isText) ==
    [st EXCEPT !.len = @ + chunkLen,
               !.pads = IF isText THEN @ ELSE @ + 1,
               !.hasText = @ \/ isText]

LegacyChunk ==
    /\ variant = "legacy"
    /\ stream.listening /\ ~stream.ended
    /\ \/ /\ stream.pads < MaxPads
          /\ stream' = LegacyChunkResult(stream, PadLen, FALSE)
       \/ /\ ~stream.hasText /\ req.text.len > 0
          /\ stream' = LegacyChunkResult(stream, req.text.len, TRUE)
    /\ UNCHANGED <<env, cfgMod, bkMod, variant, cfgRes, req, pc, payload, res, calls,
                   local, trail>>

\* send-booking.js:290-298  the stream is done
LegacyEndResult(st, text) ==
    LET parsed == JsonParse(st, text)
    IN  [st EXCEPT !.ended = TRUE,
                   !.promise = IF st.len # 0 /\ parsed.ok THEN "resolved" ELSE "rejected",
                   !.value = IF st.len # 0 /\ parsed.ok THEN parsed.value ELSE @,
                   !.error = IF st.len = 0 THEN "Request body is empty"
                             ELSE IF ~parsed.ok THEN "Invalid JSON body" ELSE @]

LegacyEnd ==
    /\ variant = "legacy"
    /\ stream.listening /\ ~stream.ended
    /\ stream.hasText \/ req.text.len = 0
    /\ stream' = LegacyEndResult(stream, req.text)
    /\ UNCHANGED <<env, cfgMod, bkMod, variant, cfgRes, req, pc, payload, res, calls,
                   local, trail>>

\* send-booking.js:286  the stream fails and the loop throws its error
LegacyError ==
    /\ variant = "legacy"
    /\ stream.listening /\ ~stream.ended
    /\ stream' = [stream EXCEPT !.ended = TRUE, !.promise = "rejected", !.error = "aborted"]
    /\ UNCHANGED <<env, cfgMod, bkMod, variant, cfgRes, req, pc, payload, res, calls,
                   local, trail>>

\* send-booking.js:318-372  the continuation of `await readJsonBody(req)`
LegacyBodyParsed ==
    /\ variant = "legacy"
    /\ pc = "AwaitBody"
    /\ stream.promise \in {"resolved", "rejected"}
    /\ IF stream.promise = "rejected"
       THEN Step(Respond(Cur, 400, ErrorBody(stream.error)))
       ELSE Step(LegacySubmit([Cur EXCEPT !.payload = stream.value,
                                          !.trail = Append(@, "BodyParsed")]))
    /\ UNCHANGED <<env, cfgMod, bkMod, variant, cfgRes, req, stream>>

\* send-booking.js:392-396  the processor rejected the creation with error text e
LegacyCreateFailed(c, e) ==
    Respond([c EXCEPT !.calls.error = e], 502, ErrorBody("Failed to initiate payment"))

\* send-booking.js:372-403  the continuation of `await stripe.paymentIntents.create`
LegacyCreateReturns ==
    /\ variant = "legacy"
    /\ pc = "AwaitCreate"
    /\ \/ Step(LegacyMail([Cur EXCEPT !.local.payment =
                [NoPayment EXCEPT !.shape = "legacy", !.enabled = TRUE,
                                  !.clientSecret = Str(S_secret), !.id = Str(S_pinew)]]))
       \/ \E e \in ProcessorErrors : Step(LegacyCreateFailed(Cur, e))
    /\ UNCHANGED <<env, cfgMod, bkMod, variant, cfgRes, req, stream>>

\* send-booking.js:409-422  the continuation of `await transporter.sendMail`
LegacyMailReturns ==
    /\ variant = "legacy"
    /\ pc = "AwaitMail"
    /\ \/ Step(Respond(Cur, 200,
                [NoBody EXCEPT !.kind = "json", !.keys = {"status", "payment"},
                               !.status = "sent", !.payment = ResponsePayment(Cur)]))
       \/ Step(Respond([Cur EXCEPT !.calls.mailFailed = TRUE], 500,
                        ErrorBody("Failed to send email")))
    /\ UNCHANGED <<env, cfgMod, bkMod, variant, cfgRes, req, stream>>

(* ------------------------------------------------------------------ *)
(* Specification: one config request and one booking request          *)
(* ------------------------------------------------------------------ *)
Envs ==
    [STRIPE_SECRET_KEY : {Undef, Str(S_sk)},
     STRIPE_PUBLISHABLE_KEY : {Undef, Str(S_pk)},
     STRIPE_CURRENCY : {Undef},
     STRIPE_DEPOSIT_AMOUNT : {Undef, Str(S_1500), Str(S_minus5), Str(S_abc), Str(S_zero)},
     SMTP_OK : BOOLEAN,
     EMAIL_CREDS : BOOLEAN]

\* the settings a variant does not read are left unset
Init ==
    /\ variant \in {"handler", "legacy"}
    /\ env \in {e \in Envs : (variant = "handler" => ~e.EMAIL_CREDS)
                              /\ (variant = "legacy" => ~e.SMTP_OK)}
    /\ cfgMod = LoadStripeConfig(env)
    /\ bkMod = LoadSendBooking(env)
    /\ cfgRes = NoCfgResponse
    /\ req = NoRequest
    /\ pc = "Start"
    /\ stream = NoStream
    /\ payload = EmptyObject
    /\ res = NoResponse
    /\ calls = NoCalls
    /\ local = NoLocal
    /\ trail = <<"Start">>

Next ==
    \/ ConfigRequest
    \/ HandlerInvoke
    \/ OnData
    \/ OnEnd
    \/ OnError
    \/ HandlerBodyParsed
    \/ CreateReturns
    \/ RetrieveReturns
    \/ MailReturns
    \/ LegacyInvoke
    \/ LegacyChunk
    \/ LegacyEnd
    \/ LegacyError
    \/ LegacyBodyParsed
    \/ LegacyCreateReturns
    \/ LegacyMailReturns

Spec == Init /\ [][Next]_vars

(* ------------------------------------------------------------------ *)
(* Specification: the two files are loaded under a raw deposit setting *)
(* ------------------------------------------------------------------ *)
RawChars == {"0", "1", "5", "-", "+", " ", ".", "a"}

RECURSIVE RawStrings(_)
RawStrings(k) ==
    IF k = 0 THEN {<<>>}
    ELSE LET shorter == RawStrings(k - 1)
         IN  shorter \cup {Append(cs, ch) : cs \in {x \in shorter : Len(x) = k - 1},
                                            ch \in RawChars}

RawSettings ==
    {Undef, Str(S_1500), Str(S_minus5), Str(S_abc)}
    \cup {Str(cs) : cs \in RawStrings(MaxRawLen)}

InitDeposit ==
    /\ variant = "handler"
    /\ env \in {e \in [STRIPE_SECRET_KEY : {Str(S_sk)},
                       STRIPE_PUBLISHABLE_KEY : {Str(S_pk)},
                       STRIPE_CURRENCY : {Undef},
                       STRIPE_DEPOSIT_AMOUNT : RawSettings,
                       SMTP_OK : {FALSE},
                       EMAIL_CREDS : {FALSE}] : TRUE}
    /\ cfgMod = NotLoadedCfg
    /\ bkMod = NotLoadedBk
    /\ cfgRes = NoCfgResponse
    /\ req = NoRequest
    /\ pc = "Start"
    /\ stream = NoStream
    /\ payload = EmptyObject
    /\ res = NoResponse
    /\ calls = NoCalls
    /\ local = NoLocal
    /\ trail = <<"Start">>

\* stripe-config.js:1-5  the module's top level runs
LoadConfigModule ==
    /\ ~cfgMod.loaded
    /\ cfgMod' = LoadStripeConfig(env)
    /\ UNCHANGED <<env, bkMod, variant, cfgRes, req, pc, stream, payload, res, calls,
                   local, trail>>

\* send-booking.js:4-38  the module's top level runs
LoadBookingModule ==
    /\ ~bkMod.loaded
    /\ bkMod' = LoadSendBooking(env)
    /\ UNCHANGED <<env, cfgMod, variant, cfgRes, req, pc, stream, payload, res, calls,
                   local, trail>>

NextDeposit ==
    \/ LoadConfigModule
    \/ LoadBookingModule
    \/ ConfigRequest

DepositSpec == InitDeposit /\ [][NextDeposit]_vars

(* ------------------------------------------------------------------ *)
(* Properties                                                         *)
(* ------------------------------------------------------------------ *)
\* the JSON value the client sent, before the handler touched it
Supplied == IF req.mode = "object" THEN req.parsed ELSE req.text.value

InSubmitFlow == Len(trail) >= 4 /\ trail[4] = "SubmitFlow"
InConfirmFlow == Len(trail) >= 4 /\ trail[4] = "ConfirmFlow"

\* C1: whenever the config handler has answered a GET and the booking handler has
\* answered a submit with 200, the two report the same paymentRequired.
C1_HandlersAgreeOnPaymentRequired ==
    (/\ cfgRes.status = 200
     /\ variant = "handler" /\ pc = "Responded" /\ InSubmitFlow /\ res.status = 200)
    => res.body.paymentRequired = cfgRes.paymentRequired

\* C2: in every variant, a request whose mail send was attempted and failed is
\* answered 200, the failure being only the mailError field of the success body.
C2_MailFailureKeepsStatus200 ==
    (pc = "Responded" /\ calls.mailFailed)
    => (res.status = 200 /\ "mailError" \in res.body.keys)

\* C3: in the confirm flow, once the processor's retrieve call has failed, the
\* notification has been attempted with paymentStatus the client's value or, if
\* that was unset, "payment-pending" when paymentRequired and "not-charged"
\* otherwise; and the response, once sent, is the single 200 {success: true,
\* payment: {id: the supplied paymentIntentId, status: "unknown"}}.
C3_RetrieveFailureDegrades ==
    (variant = "handler" /\ calls.retrieved = "failed")
    => /\ InConfirmFlow
       /\ pc \in {"AwaitMail", "Responded"}
       /\ calls.notify = 1
       /\ payload.f.paymentStatus =
            IF Truthy(Supplied.f.paymentStatus) THEN Supplied.f.paymentStatus
            ELSE IF bkMod.paymentRequired THEN Str(S_pending) ELSE Str(S_notcharged)
       /\ pc = "Responded" =>
            /\ res.count = 1
            /\ res.status = 200
            /\ res.body.success
            /\ "payment" \in res.body.keys
            /\ res.body.payment.shape = "status"
            /\ res.body.payment.id = Supplied.f.paymentIntentId
            /\ res.body.payment.status = Str(S_unknown)

C3_Witness ==
    /\ variant = "handler" /\ calls.retrieved = "failed" /\ pc = "Responded"
    /\ ~Truthy(Supplied.f.paymentStatus)
    /\ payload.f.paymentStatus = Str(S_notcharged)
    /\ res.body.payment.status = Str(S_unknown)
    /\ calls.sendMail = 1

\* C4: in the handler variant the processor is called only when paymentRequired
\* is true, and a 200 submit response with payment disabled carries payment: null.
C4_ProcessorOnlyWhenPaymentRequired ==
    variant = "handler" =>
        /\ (calls.create + calls.retrieve > 0) => bkMod.paymentRequired
        /\ (pc = "Responded" /\ InSubmitFlow /\ res.status = 200 /\ ~bkMod.paymentRequired)
            => res.body.payment = NullPayment

CreationFailed == calls.create > 0 /\ calls.error # ""

\* C5 as stated: a failed intent creation ends the request with status 500 and
\* body {error: "Unable to initiate payment"}, no success and no notification.
C5_CreateFailureIs500 ==
    (CreationFailed /\ pc = "Responded")
    => /\ res.status = 500
       /\ res.body = ErrorBody("Unable to initiate payment")
       /\ calls.notify = 0 /\ calls.sendMail = 0

\* C5 amended: a failed intent creation ends the request at once with a single
\* error response, 500 {error: "Unable to initiate payment"} in the handler
\* variant and 502 {error: "Failed to initiate payment"} in the legacy variant;
\* the message is fixed, never the processor's error text, there is no success
\* body and no notification is sent.
C5_CreateFailureIsFixed5xx ==
    CreationFailed
    => /\ pc = "Responded"
       /\ res.count = 1
       /\ res.status = (IF variant = "handler" THEN 500 ELSE 502)
       /\ res.body = ErrorBody(IF variant = "handler" THEN "Unable to initiate payment"
                               ELSE "Failed to initiate payment")
       /\ res.body.error \notin ProcessorErrors
       /\ res.body.error # calls.error
       /\ ~res.body.success
       /\ calls.notify = 0 /\ calls.sendMail = 0

C5_Witness ==
    /\ variant = "handler" /\ CreationFailed /\ pc = "Responded"
    /\ res.status = 500 /\ calls.error = "connect ETIMEDOUT"

\* the fields the claim calls missing: absent, or present but trimming to ""
MissingPerSpec(f) ==
    LET missing(field) == f[field].t = "undefined" \/ Trim(ToStringJS(f[field])) = <<>>
    IN  SelectSeq(RequiredFields, missing)

\* C6: a submit is refused with 400 and a message naming, in field order, exactly
\* the required fields that are absent or trim to the empty string; when there is
\* none, it is not refused for missing fields.
C6_MissingIffAbsentOrBlank ==
    (pc = "Responded" /\ InSubmitFlow /\ Supplied.kind = "object")
    => LET missing == MissingPerSpec(Supplied.f)
       IN  IF missing # <<>>
           THEN /\ res.status = 400
                /\ res.body.keys = {"error"}
                /\ res.body.missing = missing
           ELSE /\ res.body.missing = <<>>
                /\ res.body.error \notin {"Missing required fields: ",
                                          "Missing required fields"}

\* what the claim expects of a raw deposit setting
ExpectedDeposit(raw) ==
    LET parsed == ParseInt(raw)
    IN  IF parsed.t = "number" /\ parsed.n > 0 THEN parsed.n ELSE 0

\* C7: the deposit each file resolves is a non-negative integer, the parsed
\* integer when that is finite and positive and 0 otherwise ("1500" gives 1500;
\* "-5", "abc" and an unset value give 0); both files resolve the same value and
\* the config handler reports it.
C7_DepositNormalized ==
    LET raw == env.STRIPE_DEPOSIT_AMOUNT
        examples(d) ==
            /\ raw = Str(S_1500) => d = 1500
            /\ raw \in {Str(S_minus5), Str(S_abc), Undef} => d = 0
            /\ (raw.t = "string" /\ raw.s # <<>> /\ IsDigit(raw.s[1])
                /\ raw.s[1] # "0") => d > 0
            /\ (raw.t = "string" /\ raw.s # <<>> /\ raw.s[1] \in {"-", ".", "a"}) => d = 0
    IN  /\ cfgMod.loaded =>
            /\ cfgMod.normalizedDeposit \in Nat
            /\ cfgMod.normalizedDeposit = ExpectedDeposit(raw)
            /\ examples(cfgMod.normalizedDeposit)
        /\ bkMod.loaded =>
            /\ bkMod.normalizedDeposit \in Nat
            /\ bkMod.normalizedDeposit = ExpectedDeposit(raw)
            /\ examples(bkMod.normalizedDeposit)
        /\ (cfgMod.loaded /\ bkMod.loaded) =>
            cfgMod.normalizedDeposit = bkMod.normalizedDeposit
        /\ cfgRes.status = 200 => cfgRes.depositAmount = ExpectedDeposit(raw)

C7_Witness ==
    /\ cfgMod.loaded /\ bkMod.loaded /\ cfgRes.status = 200
    /\ env.STRIPE_DEPOSIT_AMOUNT = Str(<<" ", "1", "5">>)
    /\ cfgRes.depositAmount = 15 /\ bkMod.normalizedDeposit = 15

\* C8: a request that has ended has sent exactly one response, and none sends two.
C8_ExactlyOneResponse ==
    /\ res.count <= 1
    /\ pc \in {"Responded", "Threw"} => res.count = 1

\* C9: reading the raw stream, a body over the cap has the connection aborted and
\* the parse failed for good, and the request answered 400 "Invalid JSON body"
\* without any processor or mail call; under the cap an empty body parses to {}
\* and malformed JSON is answered 400 "Invalid JSON body".
C9_RawBodyCapAndParse ==
    req.mode = "stream" =>
        /\ stream.len > BodyCap =>
            /\ stream.socketDestroyed
            /\ stream.promise = "rejected"
            /\ pc = "Responded" =>
                /\ res.status = 400 /\ res.body = ErrorBody("Invalid JSON body")
                /\ calls = NoCalls
        /\ (stream.len = 0 /\ stream.ended /\ stream.error # "aborted") =>
            (stream.promise = "resolved" /\ stream.value = EmptyObject)
        /\ (stream.len > 0 /\ stream.len <= BodyCap /\ stream.ended
            /\ stream.error # "aborted" /\ ~JsonParse(stream, req.text).ok
            /\ pc = "Responded") =>
            (res.status = 400 /\ res.body = ErrorBody("Invalid JSON body"))

\* C10: in the confirm flow the subject carries "(deposit received)" only if the
\* retrieve call of this request returned a status that lowercases to "succeeded".
C10_SuffixOnlyFromProcessor ==
    (variant = "handler" /\ calls.subject = SubjectDeposit)
    => (calls.retrieved = "ok" /\ ToLowerCase(local.payment.status.s) = S_succeeded)

====
